---- MODULE Spec2Model ----
(***************************************************************************)
(* Epoch-based reclamation engine of atomic-rs (src/gc): the Epoch / Flag  *)
(* enums, the Treiber stack AtomicStack with its try_own guard and         *)
(* snapshot iterator, and the coordinator Global / Local / PinGuard.       *)
(*                                                                         *)
(* Every atomic access of the source is one step of the model and the      *)
(* steps of different threads interleave freely (sequential consistency,   *)
(* the strongest reading of the orderings the source asks for).            *)
(***************************************************************************)
EXTENDS Integers, Sequences, FiniteSets, TLC

\* ------------------------------------------------------------------ bounds
NLocals == 2        \* Locals registered on one Global, one thread each
MaxDefer == 3       \* defer_drop (Local::migrate) calls in one run; the runs of
                    \* SpecCapOne and SpecLive make one more
MaxCap == 2         \* the const generic CAP ranges over 1..MaxCap
NPushers == 2       \* threads pushing onto the stand-alone AtomicStack
MaxPush == 3        \* pushes onto the stand-alone AtomicStack in one run
MaxApply == 6       \* calls of Epoch::increase, and of Epoch::decrease, on a value

Locals == 1..NLocals
Payloads == 1..(MaxDefer + 1)
Pushers == 1..NPushers
Owner == NPushers + 1   \* the thread that owns, iterates and pops the stand-alone stack
Nodes == 1..MaxPush
Null == 0

\* ------------------------------------------------------------ epoch.rs
Epochs == {"Epoch0", "Epoch1", "Epoch2"}
Flags == {"Epoch0", "Epoch1", "Epoch2", "Unpin"}
NoEpoch == "none"

\* `epoch as usize` (#[repr(usize)] discriminants)
EpochAsUsize(e) == CASE e = "Epoch0" -> 0 [] e = "Epoch1" -> 1 [] e = "Epoch2" -> 2

\* mem::transmute::<usize, Epoch>
UsizeAsEpoch(n) == CASE n = 0 -> "Epoch0" [] n = 1 -> "Epoch1" [] n = 2 -> "Epoch2"

\* `flag as usize`
FlagAsUsize(f) ==
    CASE f = "Epoch0" -> 0 [] f = "Epoch1" -> 1 [] f = "Epoch2" -> 2 [] f = "Unpin" -> 3

\* mem::transmute::<usize, Flag>
UsizeAsFlag(n) ==
    CASE n = 0 -> "Epoch0" [] n = 1 -> "Epoch1" [] n = 2 -> "Epoch2" [] n = 3 -> "Unpin"

EpochDefault == "Epoch0"
FlagDefault == "Unpin"

increase(e) == UsizeAsEpoch((EpochAsUsize(e) + 1) % 3)

\* a decrease that steps by one, as increase does
decrease_by_one(e) == UsizeAsEpoch((EpochAsUsize(e) + 1) % 3)

decrease(e) == UsizeAsEpoch((EpochAsUsize(e) + 2) % 3)

\* a transmute that lands on the flag of the following epoch
from_epoch_next(e) == UsizeAsFlag((EpochAsUsize(e) + 1) % 3)

\* Flag::from_epoch: a transmute, the usize encoding is kept
from_epoch(e) == UsizeAsFlag(EpochAsUsize(e))

\* ------------------------------------------------------------- state
VARIABLES
    capv,         \* the const generic CAP of this Global
    quota,        \* the defer_drop calls a run may make in all; fixed from Init on
    debug,        \* cfg(debug_assertions) of the build
    gepoch,       \* Global.epoch
    gbags,        \* Global.bags: index 0..2 -> stack of bags, head first
    roster,       \* Global.flags: the Locals whose flag is on the stack, head last
    isTaken,      \* Global.flags.is_taken
    guards,       \* the threads holding a live StackGuard of Global.flags
    flagv,        \* the AtomicFlag of each Local
    pc,           \* the position of each Local's thread
    lbag,         \* Local.bag
    guard_epoch,  \* pin's local `epoch`, then PinGuard.epoch
    mepoch,       \* Global::migrate's local `epoch`
    cursor,       \* QueueIterator.next of the roster scan (0 = null)
    ndefer,       \* payloads handed to Local::migrate so far
    ndrop,        \* destructor runs of each payload
    drained,      \* payloads destroyed by the drain of Global::migrate
    pinMark,      \* ndefer at the moment the Local's pin published its flag
    pinGlobal,    \* Global.epoch at the moment the Local's pin published its flag
    pass,         \* what the Local's running Global::migrate has done so far
    gdropped,     \* the Global has been dropped
    \* a stand-alone AtomicStack<usize>, node by node (stack.rs)
    sHead,        \* AtomicStack.head (Null or a node)
    sNext,        \* Node.next of every allocated node
    sData,        \* the value Node.data points to
    sTaken,       \* AtomicStack.is_taken
    sFreed,       \* node addresses freed by boxed_pop (Box::from_raw), not reused yet
    sAlloc,       \* pushes started so far
    spc,          \* the position of each thread using the stack
    sNode,        \* boxed_push's `node`, boxed_pop's `popping_node_raw`
    sSeen,        \* boxed_push's `head`, boxed_pop's `next_node`
    itNext,       \* QueueIterator.next
    itYield,      \* the values the iterator has returned
    itOrig,       \* the stack's values, head first, when try_own succeeded
    itSnap,       \* the stack's values, head first, when into_iter loaded head
    sAbs,         \* the stack's values, head first: a push adds at its successful
                  \* CAS, a pop removes at its successful CAS
    sPopLog,      \* the values boxed_pop has returned as Some, oldest first
    \* an Epoch value under repeated Epoch::increase / Epoch::decrease (epoch.rs)
    fe0,          \* the Epoch started from
    fe,           \* the Epoch reached
    ff,           \* Flag::from_epoch of the Epoch reached
    fup,          \* calls of increase so far
    fdown         \* calls of decrease so far

svars == <<sHead, sNext, sData, sTaken, sFreed, sAlloc, spc, sNode, sSeen, itNext,
           itYield, itOrig, itSnap, sAbs, sPopLog>>

fvars == <<fe0, fe, ff, fup, fdown>>

evars == <<capv, quota, gepoch, gbags, roster, isTaken, guards, flagv, pc, lbag,
           guard_epoch, mepoch, cursor, ndefer, ndrop, drained, pinMark, pinGlobal,
           pass, gdropped>>

vars == <<debug, evars, svars, fvars>>

NoPass == [witness |-> FALSE, pushed |-> {}, popped |-> {}, published |-> FALSE]

\* ---------------------------------------------------------- stack.rs
\* a push that links the new node to null instead of the head it loaded
StackPushLosingTail(s, x) == <<x>>

\* AtomicStack::boxed_push at its successful compare_exchange_weak on head
StackPush(s, x) == <<x>> \o s

\* AtomicStack::boxed_pop at its successful compare_exchange on head
StackPopRest(s) == Tail(s)

\* a try_own that stores true without comparing
TryOwnAlways(taken) == TRUE

\* AtomicStack::try_own: compare_exchange(false, true) on is_taken
TryOwnSucceeds(taken) == taken = FALSE

\* --------------------------------------------------------------- gc.rs
\* a bag that counts as full only once it holds more than CAP boxes
is_full_late(bag, cap) == Len(bag) > cap

\* Bag::is_full
is_full(bag, cap) == Len(bag) = cap

\* the comparison of the roster scan in Global::migrate
IsWitness(f, e) == f = from_epoch(decrease(e))

\* a drain of the slot of the loaded epoch itself
DrainIndexOfEpoch(e) == EpochAsUsize(e)

\* the bag stack Global::migrate drains
DrainIndex(e) == EpochAsUsize(decrease(e))

\* the value Global::migrate publishes
PublishEpoch(e) == increase(e)

RangeOf(s) == {s[i] : i \in 1..Len(s)}

\* Vec<Box<T>>::drop of a bag: every payload's destructor runs
DropBag(nd, bag) == [p \in Payloads |-> IF p \in RangeOf(bag) THEN nd[p] + 1 ELSE nd[p]]

InitCommon ==
    /\ gepoch = EpochDefault
    /\ gbags = [i \in 0..2 |-> <<>>]
    /\ isTaken = FALSE
    /\ guards = {}
    /\ flagv = [l \in Locals |-> FlagDefault]
    /\ lbag = [l \in Locals |-> <<>>]
    /\ guard_epoch = [l \in Locals |-> NoEpoch]
    /\ mepoch = [l \in Locals |-> NoEpoch]
    /\ cursor = [l \in Locals |-> 0]
    /\ ndefer = 0
    /\ ndrop = [p \in Payloads |-> 0]
    /\ drained = {}
    /\ pinMark = [l \in Locals |-> 0]
    /\ pinGlobal = [l \in Locals |-> NoEpoch]
    /\ pass = [l \in Locals |-> NoPass]
    /\ gdropped = FALSE

\* AtomicStack::default(), no thread using it yet
InitStack ==
    /\ sHead = Null
    /\ sNext = [n \in Nodes |-> Null]
    /\ sData = [n \in Nodes |-> 0]
    /\ sTaken = FALSE
    /\ sFreed = {}
    /\ sAlloc = 0
    /\ spc = [t \in {Owner} \cup Pushers |-> "idle"]
    /\ sNode = [t \in {Owner} \cup Pushers |-> Null]
    /\ sSeen = [t \in {Owner} \cup Pushers |-> Null]
    /\ itNext = Null
    /\ itYield = <<>>
    /\ itOrig = <<>>
    /\ itSnap = <<>>
    /\ sAbs = <<>>
    /\ sPopLog = <<>>

\* an Epoch value and nothing applied to it yet
InitEpochIdle ==
    /\ fe0 = EpochDefault
    /\ fe = EpochDefault
    /\ ff = from_epoch(EpochDefault)
    /\ fup = 0
    /\ fdown = 0

\* Global::default() followed by NLocals calls of register() by the owning
\* thread, as gc_multiple does before it spawns its threads. No step of Next
\* reads debug: the roster is pushed only here, and the bag stacks are never
\* taken, so the assertion of boxed_push cannot fail after this point.
Init ==
    /\ InitCommon
    /\ quota = MaxDefer
    /\ InitStack
    /\ InitEpochIdle
    /\ capv \in 1..MaxCap
    /\ debug = TRUE
    /\ roster = [i \in 1..NLocals |-> i]
    /\ pc = [l \in Locals |-> "idle"]

\* Local::pin, the load of Global.epoch
PinLoad(l) ==
    /\ pc[l] = "idle"
    /\ flagv[l] = "Unpin"
    /\ guard_epoch' = [guard_epoch EXCEPT ![l] = gepoch]
    /\ pc' = [pc EXCEPT ![l] = "pin_store"]
    /\ UNCHANGED <<capv, quota, debug, gepoch, gbags, roster, isTaken, guards,
                   flagv, lbag, mepoch, cursor, ndefer, ndrop, drained, pinMark,
                   pinGlobal, pass, gdropped, svars, fvars>>

\* Local::pin, the store of the flag; the PinGuard exists from here
PinStore(l) ==
    /\ pc[l] = "pin_store"
    /\ flagv' = [flagv EXCEPT ![l] = from_epoch(guard_epoch[l])]
    /\ pinGlobal' = [pinGlobal EXCEPT ![l] = gepoch]
    /\ pinMark' = [pinMark EXCEPT ![l] = ndefer]
    /\ pc' = [pc EXCEPT ![l] = "pinned"]
    /\ UNCHANGED <<capv, quota, debug, gepoch, gbags, roster, isTaken, guards,
                   lbag, guard_epoch, mepoch, cursor, ndefer, ndrop, drained, pass,
                   gdropped, svars, fvars>>

\* PinGuard::drop
Unpin(l) ==
    /\ pc[l] = "pinned"
    /\ flagv' = [flagv EXCEPT ![l] = "Unpin"]
    /\ guard_epoch' = [guard_epoch EXCEPT ![l] = NoEpoch]
    /\ pinGlobal' = [pinGlobal EXCEPT ![l] = NoEpoch]
    /\ pinMark' = [pinMark EXCEPT ![l] = 0]
    /\ pc' = [pc EXCEPT ![l] = "idle"]
    /\ UNCHANGED <<capv, quota, debug, gepoch, gbags, roster, isTaken, guards,
                   lbag, mepoch, cursor, ndefer, ndrop, drained, pass, gdropped,
                   svars, fvars>>

\* Local::migrate (defer_drop): the payload goes into the Local's bag; a full
\* bag is swapped out and Global::migrate pushes it onto bags[guard.epoch].
DeferDrop(l) ==
    /\ pc[l] = "pinned"
    /\ ndefer < quota
    /\ LET p == ndefer + 1
           bag == Append(lbag[l], p)
           i == EpochAsUsize(guard_epoch[l])
       IN  /\ ndefer' = p
           /\ IF is_full(bag, capv)
              THEN /\ lbag' = [lbag EXCEPT ![l] = <<>>]
                   /\ gbags' = [gbags EXCEPT ![i] = StackPush(gbags[i], bag)]
                   /\ pass' = [pass EXCEPT ![l] = [NoPass EXCEPT !.pushed = {i}]]
                   /\ pc' = [pc EXCEPT ![l] = "m_load"]
              ELSE /\ lbag' = [lbag EXCEPT ![l] = bag]
                   /\ UNCHANGED <<gbags, pass, pc>>
    /\ UNCHANGED <<capv, quota, debug, gepoch, roster, isTaken, guards, flagv,
                   guard_epoch, mepoch, cursor, ndrop, drained, pinMark, pinGlobal,
                   gdropped, svars, fvars>>

\* Global::migrate, the load of Global.epoch
MigrateLoad(l) ==
    /\ pc[l] = "m_load"
    /\ mepoch' = [mepoch EXCEPT ![l] = gepoch]
    /\ pc' = [pc EXCEPT ![l] = "m_own"]
    /\ UNCHANGED <<capv, quota, debug, gepoch, gbags, roster, isTaken, guards,
                   flagv, lbag, guard_epoch, cursor, ndefer, ndrop, drained,
                   pinMark, pinGlobal, pass, gdropped, svars, fvars>>

\* Global::migrate, self.flags.try_own(): Some(guard), or None and return
TryOwn(l) ==
    /\ pc[l] = "m_own"
    /\ IF TryOwnSucceeds(isTaken)
       THEN /\ isTaken' = TRUE
            /\ guards' = guards \cup {l}
            /\ pc' = [pc EXCEPT ![l] = "m_iter"]
            /\ UNCHANGED <<mepoch, pass>>
       ELSE /\ pc' = [pc EXCEPT ![l] = "pinned"]
            /\ mepoch' = [mepoch EXCEPT ![l] = NoEpoch]
            /\ pass' = [pass EXCEPT ![l] = NoPass]
            /\ UNCHANGED <<isTaken, guards>>
    /\ UNCHANGED <<capv, quota, debug, gepoch, gbags, roster, flagv, lbag,
                   guard_epoch, cursor, ndefer, ndrop, drained, pinMark, pinGlobal,
                   gdropped, svars, fvars>>

\* AtomicStack::into_iter: the one load of head
IntoIter(l) ==
    /\ pc[l] = "m_iter"
    /\ cursor' = [cursor EXCEPT ![l] = Len(roster)]
    /\ pc' = [pc EXCEPT ![l] = "m_scan"]
    /\ UNCHANGED <<capv, quota, debug, gepoch, gbags, roster, isTaken, guards,
                   flagv, lbag, guard_epoch, mepoch, ndefer, ndrop, drained,
                   pinMark, pinGlobal, pass, gdropped, svars, fvars>>

\* a roster loop with no early return
ScanOutcomeNoReturn(f, e) == "continue"

\* what one turn of the roster loop of Global::migrate does with the flag it loaded
ScanOutcome(f, e) == IF IsWitness(f, e) THEN "return" ELSE "continue"

\* QueueIterator::next and the flag comparison of the loop body
ScanNext(l) ==
    /\ pc[l] = "m_scan"
    /\ IF cursor[l] = 0
       THEN /\ pc' = [pc EXCEPT ![l] = "m_drain"]
            /\ UNCHANGED <<cursor, pass>>
       ELSE LET f == flagv[roster[cursor[l]]]
            IN  /\ pass' = [pass EXCEPT ![l].witness = @ \/ IsWitness(f, mepoch[l])]
                /\ IF ScanOutcome(f, mepoch[l]) = "return"
                   THEN /\ pc' = [pc EXCEPT ![l] = "m_release"]
                        /\ cursor' = [cursor EXCEPT ![l] = 0]
                   ELSE /\ cursor' = [cursor EXCEPT ![l] = @ - 1]
                        /\ UNCHANGED pc
    /\ UNCHANGED <<capv, quota, debug, gepoch, gbags, roster, isTaken, guards,
                   flagv, lbag, guard_epoch, mepoch, ndefer, ndrop, drained,
                   pinMark, pinGlobal, gdropped, svars, fvars>>

\* one turn of `while grabages.boxed_pop().is_some() {}`
DrainPop(l) ==
    /\ pc[l] = "m_drain"
    /\ LET i == DrainIndex(mepoch[l])
       IN  IF gbags[i] = <<>>
           THEN /\ pc' = [pc EXCEPT ![l] = "m_store"]
                /\ UNCHANGED <<gbags, ndrop, drained, pass>>
           ELSE /\ gbags' = [gbags EXCEPT ![i] = StackPopRest(gbags[i])]
                /\ ndrop' = DropBag(ndrop, Head(gbags[i]))
                /\ drained' = drained \cup RangeOf(Head(gbags[i]))
                /\ pass' = [pass EXCEPT ![l].popped = @ \cup {i}]
                /\ UNCHANGED pc
    /\ UNCHANGED <<capv, quota, debug, gepoch, roster, isTaken, guards, flagv,
                   lbag, guard_epoch, mepoch, cursor, ndefer, pinMark, pinGlobal,
                   gdropped, svars, fvars>>

\* self.epoch.store(epoch.increase(), Release)
EpochStore(l) ==
    /\ pc[l] = "m_store"
    /\ gepoch' = PublishEpoch(mepoch[l])
    /\ pass' = [pass EXCEPT ![l].published = TRUE]
    /\ pc' = [pc EXCEPT ![l] = "m_release"]
    /\ UNCHANGED <<capv, quota, debug, gbags, roster, isTaken, guards, flagv, lbag,
                   guard_epoch, mepoch, cursor, ndefer, ndrop, drained, pinMark,
                   pinGlobal, gdropped, svars, fvars>>

\* StackGuard::drop at the end of the if-let scope or at the early return;
\* Global::migrate and Local::migrate return
Release(l) ==
    /\ pc[l] = "m_release"
    /\ isTaken' = FALSE
    /\ guards' = guards \ {l}
    /\ mepoch' = [mepoch EXCEPT ![l] = NoEpoch]
    /\ pass' = [pass EXCEPT ![l] = NoPass]
    /\ pc' = [pc EXCEPT ![l] = "pinned"]
    /\ UNCHANGED <<capv, quota, debug, gepoch, gbags, roster, flagv, lbag,
                   guard_epoch, cursor, ndefer, ndrop, drained, pinMark, pinGlobal,
                   gdropped, svars, fvars>>

\* the Local goes out of scope: its bag and the payloads in it are dropped
LocalDrop(l) ==
    /\ pc[l] = "idle"
    /\ ndrop' = DropBag(ndrop, lbag[l])
    /\ lbag' = [lbag EXCEPT ![l] = <<>>]
    /\ pc' = [pc EXCEPT ![l] = "done"]
    /\ UNCHANGED <<capv, quota, debug, gepoch, gbags, roster, isTaken, guards,
                   flagv, guard_epoch, mepoch, cursor, ndefer, drained, pinMark,
                   pinGlobal, pass, gdropped, svars, fvars>>

RECURSIVE DropStack(_, _)
\* AtomicStack::drop of a bag stack: boxed_pop until None, dropping every bag
DropStack(nd, s) == IF s = <<>> THEN nd ELSE DropStack(DropBag(nd, Head(s)), StackPopRest(s))

\* Global goes out of scope once every Local borrowed from it is gone
GlobalDrop ==
    /\ ~gdropped
    /\ \A l \in Locals : pc[l] \in {"done", "panicked"}
    /\ ndrop' = DropStack(DropStack(DropStack(ndrop, gbags[0]), gbags[1]), gbags[2])
    /\ gbags' = [i \in 0..2 |-> <<>>]
    /\ roster' = <<>>
    /\ gdropped' = TRUE
    /\ UNCHANGED <<capv, quota, debug, gepoch, isTaken, guards, flagv, pc, lbag,
                   guard_epoch, mepoch, cursor, ndefer, drained, pinMark,
                   pinGlobal, pass, svars, fvars>>

Next ==
    \/ \E l \in Locals : PinLoad(l)
    \/ \E l \in Locals : PinStore(l)
    \/ \E l \in Locals : Unpin(l)
    \/ \E l \in Locals : DeferDrop(l)
    \/ \E l \in Locals : MigrateLoad(l)
    \/ \E l \in Locals : TryOwn(l)
    \/ \E l \in Locals : IntoIter(l)
    \/ \E l \in Locals : ScanNext(l)
    \/ \E l \in Locals : DrainPop(l)
    \/ \E l \in Locals : EpochStore(l)
    \/ \E l \in Locals : Release(l)
    \/ \E l \in Locals : LocalDrop(l)
    \/ GlobalDrop

Spec == Init /\ [][Next]_vars

\* ------------------------------------------- registration on the fly
\* Global::default() alone: the worker threads register themselves, as
\* gc_onfly_register does.
InitReg ==
    /\ InitCommon
    /\ quota = MaxDefer
    /\ InitStack
    /\ InitEpochIdle
    /\ capv \in 1..MaxCap
    /\ debug \in BOOLEAN
    /\ roster = <<>>
    /\ pc = [l \in Locals |-> "unreg"]

\* the debug_assert_eq! at the head of boxed_push, compiled under
\* cfg(debug_assertions): it panics when is_taken is set
PushAssertFails(dbg, taken) == dbg /\ taken

\* Global::register, up to the assertion of self.flags.push
RegisterAssert(l) ==
    /\ pc[l] = "unreg"
    /\ pc' = [pc EXCEPT ![l] = IF PushAssertFails(debug, isTaken) THEN "panicked"
                                ELSE "reg_push"]
    /\ UNCHANGED <<capv, quota, debug, gepoch, gbags, roster, isTaken, guards,
                   flagv, lbag, guard_epoch, mepoch, cursor, ndefer, ndrop,
                   drained, pinMark, pinGlobal, pass, gdropped, svars, fvars>>

\* Global::register, the compare_exchange_weak of the push of a default flag;
\* the Local is built on the reference push returns
RegisterPush(l) ==
    /\ pc[l] = "reg_push"
    /\ roster' = Append(roster, l)
    /\ flagv' = [flagv EXCEPT ![l] = FlagDefault]
    /\ pc' = [pc EXCEPT ![l] = "idle"]
    /\ UNCHANGED <<capv, quota, debug, gepoch, gbags, isTaken, guards, lbag,
                   guard_epoch, mepoch, cursor, ndefer, ndrop, drained, pinMark,
                   pinGlobal, pass, gdropped, svars, fvars>>

NextReg ==
    \/ \E l \in Locals : RegisterAssert(l)
    \/ \E l \in Locals : RegisterPush(l)
    \/ \E l \in Locals : PinLoad(l)
    \/ \E l \in Locals : PinStore(l)
    \/ \E l \in Locals : Unpin(l)
    \/ \E l \in Locals : DeferDrop(l)
    \/ \E l \in Locals : MigrateLoad(l)
    \/ \E l \in Locals : TryOwn(l)
    \/ \E l \in Locals : IntoIter(l)
    \/ \E l \in Locals : ScanNext(l)
    \/ \E l \in Locals : DrainPop(l)
    \/ \E l \in Locals : EpochStore(l)
    \/ \E l \in Locals : Release(l)
    \/ \E l \in Locals : LocalDrop(l)
    \/ GlobalDrop

SpecReg == InitReg /\ [][NextReg]_vars

\* ------------------------------------- the stand-alone stack, node by node
\* Pushers push concurrently; the Owner thread pops, or owns the stack and
\* iterates it, one operation at a time.
InitStackOnly ==
    /\ InitCommon
    /\ quota = MaxDefer
    /\ InitStack
    /\ InitEpochIdle
    /\ capv = 1
    /\ debug \in BOOLEAN
    /\ roster = <<>>
    /\ pc = [l \in Locals |-> "unreg"]

RECURSIVE Walk(_, _)
\* the values reachable from node n along Node.next, n first
Walk(nx, n) == IF n = Null THEN <<>> ELSE <<sData[n]>> \o Walk(nx, nx[n])

\* a node linked before head was loaded: next stays AtomicPtr::default()
LinkToNull(head) == Null

\* node.next = AtomicPtr::new(head)
LinkTo(head) == head

\* the addresses Box::new may return for a Node: one never used before, or
\* one that boxed_pop has freed
FreshNodes ==
    LET unused == {n \in Nodes : sData[n] = 0}
    IN  sFreed \cup (IF unused = {} THEN {}
                     ELSE {CHOOSE n \in unused : \A m \in unused : n <= m})

\* boxed_push: the assertion, Box::into_raw(value) and the Node allocation;
\* the value pushed is the number of the push
PushStart(t) ==
    /\ spc[t] = "idle"
    /\ sAlloc < MaxPush
    /\ IF PushAssertFails(debug, sTaken)
       THEN /\ spc' = [spc EXCEPT ![t] = "panicked"]
            /\ UNCHANGED <<sAlloc, sData, sNext, sNode, sFreed>>
       ELSE \E n \in FreshNodes :
            /\ sAlloc' = sAlloc + 1
            /\ sData' = [sData EXCEPT ![n] = sAlloc + 1]
            /\ sNext' = [sNext EXCEPT ![n] = Null]
            /\ sNode' = [sNode EXCEPT ![t] = n]
            /\ sFreed' = sFreed \ {n}
            /\ spc' = [spc EXCEPT ![t] = "push_load"]
    /\ UNCHANGED <<debug, evars, fvars, sPopLog, sHead, sTaken, sSeen, itNext,
                   itYield, itOrig, itSnap, sAbs>>

\* boxed_push: head.load and node.next = AtomicPtr::new(head)
PushLoad(t) ==
    /\ spc[t] = "push_load"
    /\ sSeen' = [sSeen EXCEPT ![t] = sHead]
    /\ sNext' = [sNext EXCEPT ![sNode[t]] = LinkTo(sHead)]
    /\ spc' = [spc EXCEPT ![t] = "push_cas"]
    /\ UNCHANGED <<debug, evars, fvars, sPopLog, sHead, sData, sTaken, sFreed,
                   sAlloc, sNode, itNext, itYield, itOrig, itSnap, sAbs>>

\* a compare-and-swap that stores without comparing
CasAlways(current, expected) == TRUE

\* compare_exchange / compare_exchange_weak: the comparison of head with the
\* pointer loaded before
CasSucceeds(current, expected) == current = expected

\* boxed_push: compare_exchange_weak(head, node); it may fail spuriously
PushCas(t) ==
    /\ spc[t] = "push_cas"
    /\ \/ /\ CasSucceeds(sHead, sSeen[t])
          /\ sHead' = sNode[t]
          /\ sAbs' = <<sData[sNode[t]]>> \o sAbs
          /\ sNode' = [sNode EXCEPT ![t] = Null]
          /\ sSeen' = [sSeen EXCEPT ![t] = Null]
          /\ spc' = [spc EXCEPT ![t] = "idle"]
       \/ /\ spc' = [spc EXCEPT ![t] = "push_load"]
          /\ UNCHANGED <<sHead, sNode, sSeen, sAbs>>
    /\ UNCHANGED <<debug, evars, fvars, sPopLog, sNext, sData, sTaken, sFreed,
                   sAlloc, itNext, itYield, itOrig, itSnap>>

\* boxed_pop: head.load; None on null
PopLoad ==
    /\ spc[Owner] \in {"idle", "pop_load"}
    /\ IF sHead = Null
       THEN /\ spc' = [spc EXCEPT ![Owner] = "idle"]
            /\ sNode' = [sNode EXCEPT ![Owner] = Null]
       ELSE /\ spc' = [spc EXCEPT ![Owner] = "pop_next"]
            /\ sNode' = [sNode EXCEPT ![Owner] = sHead]
    /\ UNCHANGED <<debug, evars, fvars, sPopLog, sHead, sNext, sData, sTaken,
                   sFreed, sAlloc, sSeen, itNext, itYield, itOrig, itSnap, sAbs>>

\* boxed_pop: popping_node.next.load
PopNext ==
    /\ spc[Owner] = "pop_next"
    /\ sSeen' = [sSeen EXCEPT ![Owner] = sNext[sNode[Owner]]]
    /\ spc' = [spc EXCEPT ![Owner] = "pop_cas"]
    /\ UNCHANGED <<debug, evars, fvars, sPopLog, sHead, sNext, sData, sTaken,
                   sFreed, sAlloc, sNode, itNext, itYield, itOrig, itSnap, sAbs>>

\* boxed_pop: compare_exchange(popping_node_raw, next_node); on failure the
\* recursive call, on success the node is freed and the value returned
PopCas ==
    /\ spc[Owner] = "pop_cas"
    /\ IF CasSucceeds(sHead, sNode[Owner])
       THEN /\ sHead' = sSeen[Owner]
            /\ sAbs' = Tail(sAbs)
            /\ sPopLog' = Append(sPopLog, sData[sNode[Owner]])
            /\ sFreed' = sFreed \cup {sNode[Owner]}
            /\ spc' = [spc EXCEPT ![Owner] = "idle"]
       ELSE /\ spc' = [spc EXCEPT ![Owner] = "pop_load"]
            /\ UNCHANGED <<sHead, sFreed, sAbs, sPopLog>>
    /\ sNode' = [sNode EXCEPT ![Owner] = Null]
    /\ sSeen' = [sSeen EXCEPT ![Owner] = Null]
    /\ UNCHANGED <<debug, evars, fvars, sNext, sData, sTaken, sAlloc, itNext,
                   itYield, itOrig, itSnap>>

\* AtomicStack::try_own by the Owner
StackTryOwn ==
    /\ spc[Owner] = "idle"
    /\ IF TryOwnSucceeds(sTaken)
       THEN /\ sTaken' = TRUE
            /\ itOrig' = sAbs
            /\ spc' = [spc EXCEPT ![Owner] = "it_start"]
       ELSE UNCHANGED <<sTaken, itOrig, spc>>
    /\ itYield' = <<>>
    /\ itSnap' = <<>>
    /\ UNCHANGED <<debug, evars, fvars, sPopLog, sHead, sNext, sData, sFreed,
                   sAlloc, sNode, sSeen, itNext, sAbs>>

\* AtomicStack::into_iter: next = head.load
StackIntoIter ==
    /\ spc[Owner] = "it_start"
    /\ itNext' = sHead
    /\ itSnap' = sAbs
    /\ spc' = [spc EXCEPT ![Owner] = "it_next"]
    /\ UNCHANGED <<debug, evars, fvars, sPopLog, sHead, sNext, sData, sTaken,
                   sFreed, sAlloc, sNode, sSeen, itYield, itOrig, sAbs>>

\* QueueIterator::next
IterNext ==
    /\ spc[Owner] = "it_next"
    /\ IF itNext = Null
       THEN /\ spc' = [spc EXCEPT ![Owner] = "it_done"]
            /\ UNCHANGED <<itNext, itYield>>
       ELSE /\ itNext' = sNext[itNext]
            /\ itYield' = Append(itYield, sData[itNext])
            /\ UNCHANGED spc
    /\ UNCHANGED <<debug, evars, fvars, sPopLog, sHead, sNext, sData, sTaken,
                   sFreed, sAlloc, sNode, sSeen, itOrig, itSnap, sAbs>>

\* StackGuard::drop by the Owner, the iterator exhausted
StackGuardDrop ==
    /\ spc[Owner] = "it_done"
    /\ sTaken' = FALSE
    /\ spc' = [spc EXCEPT ![Owner] = "idle"]
    /\ UNCHANGED <<debug, evars, fvars, sPopLog, sHead, sNext, sData, sFreed,
                   sAlloc, sNode, sSeen, itNext, itYield, itOrig, itSnap, sAbs>>

NextStack ==
    \/ \E t \in Pushers : PushStart(t)
    \/ \E t \in Pushers : PushLoad(t)
    \/ \E t \in Pushers : PushCas(t)
    \/ PopLoad
    \/ PopNext
    \/ PopCas
    \/ StackTryOwn
    \/ StackIntoIter
    \/ IterNext
    \/ StackGuardDrop

SpecStack == InitStackOnly /\ [][NextStack]_vars

\* -------------------------------------------------- Global<T, CAP>, any CAP
\* Global::default() is derived and Bag::default() is Vec::with_capacity(CAP):
\* neither looks at CAP, so CAP = 0 constructs like any other capacity
InitAnyCap ==
    /\ InitCommon
    /\ quota = MaxDefer
    /\ InitStack
    /\ InitEpochIdle
    /\ capv \in 0..MaxCap
    /\ debug = TRUE
    /\ roster = [i \in 1..NLocals |-> i]
    /\ pc = [l \in Locals |-> "idle"]

SpecAnyCap == InitAnyCap /\ [][Next]_vars

\* ------------------------------------------- Global<T, 1>, one more defer_drop
\* CAP = 1 as in gc_one and gc_multiple: every defer_drop runs Global::migrate
InitCapOne ==
    /\ InitCommon
    /\ quota = MaxDefer + 1
    /\ InitStack
    /\ InitEpochIdle
    /\ capv = 1
    /\ debug = TRUE
    /\ roster = [i \in 1..NLocals |-> i]
    /\ pc = [l \in Locals |-> "idle"]

SpecCapOne == InitCapOne /\ [][Next]_vars

\* ------------------------------- Global<T, 1>, threads that run for ever
\* the Locals and the Global are never dropped
NextLive ==
    \/ \E l \in Locals : PinLoad(l)
    \/ \E l \in Locals : PinStore(l)
    \/ \E l \in Locals : Unpin(l)
    \/ \E l \in Locals : DeferDrop(l)
    \/ \E l \in Locals : MigrateLoad(l)
    \/ \E l \in Locals : TryOwn(l)
    \/ \E l \in Locals : IntoIter(l)
    \/ \E l \in Locals : ScanNext(l)
    \/ \E l \in Locals : DrainPop(l)
    \/ \E l \in Locals : EpochStore(l)
    \/ \E l \in Locals : Release(l)

\* the steps inside Local::pin and Global::migrate: a thread that has entered
\* one of them is scheduled until it returns
InCall(l) ==
    \/ PinStore(l)
    \/ MigrateLoad(l)
    \/ TryOwn(l)
    \/ IntoIter(l)
    \/ ScanNext(l)
    \/ DrainPop(l)
    \/ EpochStore(l)
    \/ Release(l)

\* fair scheduling of every thread inside a call, and one Local whose thread
\* keeps pinning and keeps calling defer_drop
FairCycles ==
    /\ \A l \in Locals : WF_vars(InCall(l))
    /\ \E l \in Locals : WF_vars(PinLoad(l)) /\ SF_vars(DeferDrop(l))

SpecLive == InitCapOne /\ [][NextLive]_vars /\ FairCycles

\* ------------------------------------------- epoch.rs, the functions alone
\* any Epoch, nothing applied yet
InitEpoch ==
    /\ InitCommon
    /\ quota = MaxDefer
    /\ InitStack
    /\ capv = 1
    /\ debug = TRUE
    /\ roster = <<>>
    /\ pc = [l \in Locals |-> "unreg"]
    /\ fe0 \in Epochs
    /\ fe = fe0
    /\ ff = from_epoch(fe0)
    /\ fup = 0
    /\ fdown = 0

\* Epoch::increase on the value reached, and Flag::from_epoch of the result
ApplyIncrease ==
    /\ fup < MaxApply
    /\ fup' = fup + 1
    /\ fe' = increase(fe)
    /\ ff' = from_epoch(increase(fe))
    /\ UNCHANGED <<debug, evars, svars, fe0, fdown>>

\* Epoch::decrease on the value reached, and Flag::from_epoch of the result
ApplyDecrease ==
    /\ fdown < MaxApply
    /\ fdown' = fdown + 1
    /\ fe' = decrease(fe)
    /\ ff' = from_epoch(decrease(fe))
    /\ UNCHANGED <<debug, evars, svars, fe0, fup>>

NextEpoch ==
    \/ ApplyIncrease
    \/ ApplyDecrease

SpecEpoch == InitEpoch /\ [][NextEpoch]_vars

\* ------------------------------------------------ one stack, used sequentially
\* no push, pop or iteration is under way: the calls of the unit tests of
\* stack.rs, each returning before the next is made
StackQuiet == \A u \in Pushers \cup {Owner} : spc[u] \in {"idle", "panicked"}

NextSeq ==
    \/ StackQuiet /\ \E t \in Pushers : PushStart(t)
    \/ \E t \in Pushers : PushLoad(t)
    \/ \E t \in Pushers : PushCas(t)
    \/ StackQuiet /\ PopLoad
    \/ PopNext
    \/ PopCas
    \/ StackQuiet /\ StackTryOwn
    \/ StackIntoIter
    \/ IterNext
    \/ StackGuardDrop

SpecSeq == InitStackOnly /\ [][NextSeq]_vars

\* ------------------------------------------------------------ properties
\* the thread of Local l holds a live PinGuard
HoldsGuard(l) ==
    pc[l] \in {"pinned", "m_load", "m_own", "m_iter", "m_scan", "m_drain", "m_store",
               "m_release"}

\* C1: a payload deferred while R's pin was in effect is not destroyed by the
\* drain of Global::migrate for as long as R holds that same PinGuard.
\* (pinMark[r] < p: p was handed to defer_drop after r's current pin published.)
SafeTimingOfDestruction ==
    \A p \in drained : \A r \in Locals : HoldsGuard(r) => p <= pinMark[r]

\* C2: Global::migrate pops no bag from bags[X] at a moment when some flag
\* stores flag_of(X).
NoDrainUnderPin ==
    [][\A i \in 0..2 :
         (Len(gbags'[i]) < Len(gbags[i]) /\ ~gdropped')
            => \A l \in Locals : FlagAsUsize(flagv[l]) # i]_vars

\* C3: every store to the global epoch replaces the value E it held right
\* before the store with next(E).
EpochStoresAreSuccessors ==
    [][\A l \in Locals :
         (pc[l] = "m_store" /\ pc'[l] # "m_store") => gepoch' = increase(gepoch)]_vars

\* C4: with E the global epoch, every flag is Unpin, flag_of(E) or
\* flag_of(prev(E)); none is on next(E).
ThreeEpochsSuffice ==
    \A l \in Locals :
        flagv[l] \in {"Unpin", from_epoch(gepoch), from_epoch(decrease(gepoch))}

\* C5 as stated: a pass whose scan read flag_of(prev(E)) leaves bags[prev(E)]
\* unchanged (it neither pushed onto it nor popped from it) and publishes no epoch.
WitnessLeavesPrevBagsUnchanged ==
    \A l \in Locals :
        pass[l].witness =>
            /\ DrainIndex(mepoch[l]) \notin (pass[l].pushed \cup pass[l].popped)
            /\ ~pass[l].published

\* C5 as amended: a pass whose scan read flag_of(prev(E)) pops nothing from
\* bags[prev(E)] and publishes no epoch; its own push may have landed there.
WitnessBlocksDrainAndPublish ==
    \A l \in Locals :
        pass[l].witness =>
            /\ DrainIndex(mepoch[l]) \notin pass[l].popped
            /\ ~pass[l].published

\* a pass returning early on a witness, after pushing its bag onto bags[prev(E)]
WitnessC5 ==
    \E l \in Locals :
        /\ pc[l] = "m_release"
        /\ pass[l].witness
        /\ DrainIndex(mepoch[l]) \in pass[l].pushed
        /\ gbags[DrainIndex(mepoch[l])] # <<>>

\* C6: while a Local pinned at global epoch X keeps its PinGuard, the global
\* epoch changes at most once, from X to next(X).
StragglerAdvancesAtMostOnce ==
    [][\A l \in Locals :
         (HoldsGuard(l) /\ HoldsGuard(l)' /\ gepoch' # gepoch)
            => (gepoch = pinGlobal[l] /\ gepoch' = increase(gepoch))]_vars

RECURSIVE Concat(_)
\* the payloads of a stack of bags, bag after bag
Concat(ss) == IF ss = <<>> THEN <<>> ELSE Head(ss) \o Concat(Tail(ss))

\* every payload held by some bag, Local or global, once per place holding it
Held == Concat([l \in Locals |-> lbag[l]]) \o Concat(gbags[0]) \o Concat(gbags[1])
            \o Concat(gbags[2])

\* the number of places holding payload p
Places(p) == LET h == Held IN Cardinality({k \in DOMAIN h : h[k] = p})

\* C7: every deferred payload is in exactly one place (a Local's bag, a bag of
\* one global bag stack, or destroyed once); after the Locals and the Global
\* are dropped every deferred payload has been destroyed exactly once.
PayloadConservation ==
    /\ \A p \in Payloads :
          IF p <= ndefer
          THEN Places(p) + ndrop[p] = 1
          ELSE Places(p) = 0 /\ ndrop[p] = 0
    /\ drained \subseteq {p \in Payloads : ndrop[p] > 0}
    /\ gdropped => \A p \in Payloads : ndrop[p] = IF p <= ndefer THEN 1 ELSE 0

\* everything dropped: some payloads went in the drain, some with the Global
WitnessC7 ==
    /\ gdropped
    /\ ndefer >= 3
    /\ drained # {}
    /\ \E p \in Payloads : ndrop[p] = 1 /\ p \notin drained

\* C8: at most one StackGuard of the roster is live, is_taken is true exactly
\* while one is, and a thread outside the owned part of Global::migrate (every
\* exit path taken) holds none.
TryOwnMutex ==
    /\ Cardinality(guards) <= 1
    /\ isTaken <=> guards # {}
    /\ \A l \in Locals :
          l \in guards <=> pc[l] \in {"m_iter", "m_scan", "m_drain", "m_store", "m_release"}

\* one thread is on the early-return path with its guard live while another
\* is about to call try_own
WitnessC8 ==
    \E l, m \in Locals :
        /\ l # m
        /\ l \in guards
        /\ pass[l].witness
        /\ pc[m] = "m_own"

\* C9: a Global::register call completes normally at all times, also while
\* another thread owns the roster: no assertion of the push path fails, and
\* the registered Local's flag is on the roster.
RegisterAlwaysCompletes ==
    \A l \in Locals :
        /\ pc[l] # "panicked"
        /\ (pc[l] \notin {"unreg", "reg_push"} /\ ~gdropped)
              => \E k \in DOMAIN roster : roster[k] = l

IsPrefixOf(a, b) == Len(a) <= Len(b) /\ SubSeq(b, 1, Len(a)) = a
IsSuffixOf(a, b) == Len(a) <= Len(b) /\ SubSeq(b, Len(b) - Len(a) + 1, Len(b)) = a

\* C10: with pushes racing and no pops, the iterator yields, head first and
\* once each, exactly the elements that were on the stack when into_iter
\* loaded head: the N elements present at try_own, preceded by the pushes
\* completed in between; nothing pushed later is yielded.
SnapshotIterationYield ==
    spc[Owner] \in {"it_next", "it_done"} =>
        /\ IsPrefixOf(itYield, itSnap)
        /\ IsSuffixOf(itOrig, itSnap)
        /\ spc[Owner] = "it_done" => itYield = itSnap

\* a finished iteration over N >= 1 original elements, one push completed
\* between try_own and into_iter, another after into_iter
WitnessC10 ==
    /\ spc[Owner] = "it_done"
    /\ Len(itOrig) >= 1
    /\ Len(itSnap) > Len(itOrig)
    /\ Len(sAbs) > Len(itSnap)
    /\ itYield = itSnap

\* the values whose boxed_push has returned
Pushed ==
    {v \in 1..sAlloc :
        ~ \E t \in Pushers : spc[t] \in {"push_load", "push_cas"} /\ sData[sNode[t]] = v}

SetMax(S) == CHOOSE m \in S : \A x \in S : x <= m

RECURSIVE Restrict(_, _)
\* the members of S in the order they have in sequence q
Restrict(q, S) ==
    IF q = <<>> THEN <<>>
    ELSE (IF Head(q) \in S THEN <<Head(q)>> ELSE <<>>) \o Restrict(Tail(q), S)

\* C11: in a sequential history of pushes and pops on one stack every pop
\* returns the most recently pushed element not yet popped (pushes are numbered,
\* so that is the largest one), a pop finds the head null, and so returns None,
\* exactly when nothing pushed is left unpopped, and the elements a snapshot
\* iteration yielded are still there for pop, which returns them in the order
\* the iteration yielded them.
SequentialLifo ==
    /\ [](spc[Owner] = "idle" =>
            ((sHead = Null) <=> (Pushed \ RangeOf(sPopLog) = {})))
    /\ [](IsPrefixOf(Restrict(sPopLog, RangeOf(itYield)), itYield))
    /\ [](spc[Owner] = "it_done" => itYield = Walk(sNext, sHead))
    /\ [][(PopCas /\ spc'[Owner] = "idle") =>
            LET left == Pushed \ RangeOf(sPopLog)
            IN  left # {} /\ sPopLog' = Append(sPopLog, SetMax(left))]_vars

\* two elements iterated over and then both popped, between two other pops
WitnessC11 ==
    /\ Len(itYield) = 2
    /\ Len(sPopLog) = 3
    /\ sPopLog[2] = itYield[1]
    /\ sPopLog[3] = itYield[2]
    /\ sHead = Null

\* C12: while a Local holds a PinGuard its flag is the flag of guard.epoch (the
\* same numeric encoding), guard.epoch is the global epoch Local::pin loaded and
\* does not change while the guard lives, the flag is Unpin whenever no guard is
\* held, and the flag is written only by its own Local: by the store of
\* Local::pin and by the drop of the guard.
PinGuardInvariant ==
    /\ [](\A l \in Locals :
            IF HoldsGuard(l)
            THEN flagv[l] # "Unpin" /\ FlagAsUsize(flagv[l]) = EpochAsUsize(guard_epoch[l])
            ELSE flagv[l] = "Unpin")
    /\ [][\A l \in Locals :
            /\ (pc[l] = "idle" /\ pc'[l] = "pin_store") => guard_epoch'[l] = gepoch
            /\ (pc[l] = "pin_store" \/ HoldsGuard(l)) /\ HoldsGuard(l)'
                   => guard_epoch'[l] = guard_epoch[l]
            /\ flagv'[l] # flagv[l] => pc[l] \in {"pin_store", "pinned"} /\ pc'[l] # pc[l]]_vars

\* a guard still flagged on its epoch after the global epoch has moved on
WitnessC12 ==
    \E l \in Locals :
        /\ HoldsGuard(l)
        /\ guard_epoch[l] # gepoch
        /\ flagv[l] = from_epoch(guard_epoch[l])
        /\ \E m \in Locals \ {l} : pc[m] = "idle" /\ flagv[m] = "Unpin"

\* C13: (CAP >= 1) a Local's bag holds fewer than CAP payloads between calls of
\* defer_drop and is empty while Global::migrate runs; a defer_drop that brings
\* the bag to CAP payloads pushes exactly that bag of CAP payloads onto
\* bags[guard.epoch] and leaves the Local's bag empty, any other defer_drop
\* only adds the payload to the Local's bag; every bag in a global bag stack
\* holds exactly CAP payloads.
BagCapacity ==
    /\ [](capv >= 1 =>
            /\ \A l \in Locals :
                  /\ Len(lbag[l]) < capv
                  /\ pc[l] \in {"m_load", "m_own", "m_iter", "m_scan", "m_drain",
                                "m_store", "m_release"} => lbag[l] = <<>>
            /\ \A i \in 0..2 : \A k \in DOMAIN gbags[i] : Len(gbags[i][k]) = capv)
    /\ [][capv >= 1 => \A l \in Locals : DeferDrop(l) =>
            LET i == EpochAsUsize(guard_epoch[l])
                bag == Append(lbag[l], ndefer')
            IN  IF Len(bag) = capv
                THEN /\ lbag'[l] = <<>>
                     /\ gbags'[i] = <<bag>> \o gbags[i]
                     /\ \A j \in 0..2 \ {i} : gbags'[j] = gbags[j]
                ELSE /\ lbag'[l] = bag
                     /\ gbags' = gbags]_vars

\* CAP = 2: a full bag is in a global stack and a Local holds a half-full one
WitnessC13 ==
    /\ capv = 2
    /\ \E i \in 0..2 : gbags[i] # <<>> /\ Len(gbags[i][1]) = 2
    /\ \E l \in Locals : Len(lbag[l]) = 1 /\ pc[l] = "pinned"

\* C15: a Global with CAP = 0 does not come into being, so no Local with
\* CAP = 0 ever accepts a payload or holds more than CAP payloads.
CapZeroHoldsNothing ==
    capv = 0 => \A l \in Locals : Len(lbag[l]) <= capv

\* C16: increase applied a multiple of three times gives the epoch started
\* from; increase maps Epoch0 to Epoch1, Epoch1 to Epoch2 and Epoch2 to Epoch0;
\* one decrease is worth two increases; as many decreases as increases, in
\* whatever order, give the epoch started from.
EpochWraps ==
    /\ (fdown = 0 /\ fup % 3 = 0) => fe = fe0
    /\ (fdown = 0 /\ fup = 1) =>
          \/ fe0 = "Epoch0" /\ fe = "Epoch1"
          \/ fe0 = "Epoch1" /\ fe = "Epoch2"
          \/ fe0 = "Epoch2" /\ fe = "Epoch0"
    /\ EpochAsUsize(fe) = (EpochAsUsize(fe0) + fup + 2 * fdown) % 3
    /\ fup = fdown => fe = fe0

\* Epoch2 after increase six times, and after as many decreases as increases
WitnessC16 ==
    /\ fe0 = "Epoch2"
    /\ fe = "Epoch2"
    /\ \/ fup = 6 /\ fdown = 0
       \/ fup = 2 /\ fdown = 2

\* C17: Flag::from_epoch(E) has the numeric encoding of E, one of 0, 1, 2;
\* Unpin, the default flag, has encoding 3 and is the flag of no epoch; so a
\* flag equals Flag::from_epoch(E) only if it is the flag of a pin on E.
FlagEpochCoincide ==
    /\ FlagAsUsize(ff) = EpochAsUsize(fe)
    /\ FlagAsUsize(ff) \in {0, 1, 2}
    /\ ff # "Unpin"
    /\ FlagDefault = "Unpin"
    /\ FlagAsUsize(FlagDefault) = 3
    /\ \A e \in Epochs : from_epoch(e) # FlagDefault /\ (ff = from_epoch(e) <=> e = fe)

\* the flag of Epoch1, reached from Epoch2 by a decrease
WitnessC17 ==
    /\ fe0 = "Epoch2"
    /\ fup = 0
    /\ fdown = 1
    /\ ff = "Epoch1"

\* C18: a bag popped by the drain of Global::migrate comes out of the slot of
\* the epoch before the global epoch of that moment, never out of the slot of
\* the global epoch or of the one after it.
DrainTargetsPreviousEpoch ==
    [][\A l \in Locals : DrainPop(l) =>
        \A i \in 0..2 : gbags'[i] # gbags[i] => i = EpochAsUsize(decrease(gepoch))]_vars

\* C19: while the Global is alive a bag stack is popped only by the drain of
\* the one thread that holds the roster's StackGuard, so at most one thread is
\* in the drain at a time; the roster is never popped: its entries stay in
\* place below any new one, and its length is the number of register calls
\* that have returned.
BagPopsSerialized ==
    /\ [](~gdropped =>
            /\ Cardinality({l \in Locals : pc[l] = "m_drain"}) <= 1
            /\ \A l \in Locals : pc[l] = "m_drain" => isTaken /\ guards = {l}
            /\ Len(roster) =
                  Cardinality({l \in Locals : pc[l] \notin {"unreg", "reg_push", "panicked"}}))
    /\ [][~gdropped' =>
            /\ IsPrefixOf(roster, roster')
            /\ \A i \in 0..2 : Len(gbags'[i]) < Len(gbags[i]) =>
                  \E l \in guards : DrainPop(l)]_vars

\* a thread has popped a bag in its drain while the other is about to call
\* try_own
WitnessC19 ==
    \E l, m \in Locals :
        /\ l # m
        /\ pc[l] = "m_drain"
        /\ pass[l].popped # {}
        /\ pc[m] = "m_own"
        /\ roster = <<l, m>>

\* C20: with any number of threads pushing and one thread popping, no element
\* is returned by two pops, only pushed elements are popped, every pushed
\* element is either on the stack (once) or has been popped, so that the stack
\* holds exactly the pushed and not popped elements once every call has
\* returned, and every pop returns the element that is the head at its
\* successful compare_exchange.
ConcurrentPushPop ==
    /\ [](\A j, k \in DOMAIN sPopLog : j # k => sPopLog[j] # sPopLog[k])
    /\ [](LET onStack == Walk(sNext, sHead)
          IN  /\ Cardinality(RangeOf(onStack)) = Len(onStack)
              /\ RangeOf(onStack) \cap RangeOf(sPopLog) = {}
              /\ RangeOf(onStack) \cup RangeOf(sPopLog) = Pushed
              /\ StackQuiet => RangeOf(onStack) = (1..sAlloc) \ RangeOf(sPopLog)
              /\ onStack = sAbs)
    /\ [][(PopCas /\ spc'[Owner] = "idle") =>
            sAbs # <<>> /\ sPopLog' = Append(sPopLog, Head(sAbs))]_vars

\* after an earlier pop, the popping thread's compare_exchange is about to
\* fail on a head that a concurrent push has replaced
WitnessC20 ==
    /\ spc[Owner] = "pop_cas"
    /\ sHead # sNode[Owner]
    /\ sPopLog # <<>>
    /\ Len(Walk(sNext, sHead)) = 2

\* the straggler pinned on prev(e) has left: the global epoch is e, bags[prev(e)]
\* holds a bag, no Local is flagged on prev(e) or about to be, no migrate is
\* under way and a defer_drop can still be made
StragglerGone(e) ==
    /\ capv = 1
    /\ gepoch = e
    /\ gbags[EpochAsUsize(decrease(e))] # <<>>
    /\ ndefer < quota
    /\ \A l \in Locals :
          /\ flagv[l] # from_epoch(decrease(e))
          /\ pc[l] = "pin_store" => guard_epoch[l] # decrease(e)
          /\ pc[l] \in {"idle", "pin_store", "pinned"}

\* C14: (CAP = 1) once the straggler pinned on X has unpinned, the global epoch
\* being next(X), and a Local keeps going through pin, defer_drop, unpin under
\* fair scheduling, bags[X] is drained and the global epoch moves on from next(X).
ReclamationResumes ==
    \A e \in Epochs :
        StragglerGone(e) ~>
            (gepoch = increase(e) /\ gbags[EpochAsUsize(decrease(e))] = <<>>)

\* the bag pushed in Epoch0 has been drained and the epoch has reached Epoch2
\* only after a migrate of Epoch1 had gone without draining it
WitnessC14 ==
    /\ capv = 1
    /\ gepoch = "Epoch2"
    /\ drained = {1}
    /\ gbags[0] = <<>>
    /\ Len(gbags[1]) = 2
    /\ \A l \in Locals : pc[l] \in {"idle", "pinned"}
====
